---- MODULE Spec2Model ----
(***************************************************************************)
(* A model of secure-wipe.py: secure_rename, secure_delete_file,           *)
(* secure_delete_folder, flood_journal and flood_vss, over an abstract     *)
(* directory tree.                                                         *)
(*                                                                         *)
(* A tree is a sequence of entries; entry n has a parent (0 is the target  *)
(* folder itself), a kind and a byte size.  The disk gives every entry its *)
(* current name and whether it is still present.  A path is the sequence   *)
(* of names below the target folder.  secrets.token_hex is modelled by an  *)
(* injective token (a fresh name never collides with a name in use).       *)
(* Filesystem errors are injected at the call that raises them, at most    *)
(* MaxFaults per run.                                                      *)
(***************************************************************************)
EXTENDS Integers, Sequences, FiniteSets, TLC

\* ------------------------------------------------------------------ bounds
MaxNodes == 3
MaxPasses == 2
MaxFaults == 2
MaxFloodFiles == 3
MaxVssFaults == 1
MaxRenameArg == 4
MaxCalls == 2
MaxMainNodes == 2
MaxChunks == 3

\* ------------------------------------------------------- program constants
RenamePasses == 3
NameLength == 48
ChunkSize == 1048576
DummyBytes == 1024
DummyNameBytes == 24
BytesPerOperation == 400
OperationsPerFile == 5
MinAutoFiles == 50000
MaxAutoFiles == 500000
FallbackFiles == 100000
\* flood_vss, in MiB (a GiB is 1024 of them)
GiB == 1024
VssFileSize == 100
VssChunkSize == 10
UnboundedTargetGiB == 5
DefaultTargetGiB == 10
Sizes == {0, 1024, 5000000}

VARIABLES
    tree,            \* the entries below the target folder (fixed by the run)
    target,          \* what folder_path names: "dir", "file" or "missing"
    passes,          \* argument passes
    rename_files,    \* argument rename_files
    disk,            \* entry -> [name, present]; entry 0 is the target folder
    pc,              \* position of secure_delete_folder
    ri, fi, di,      \* entries consumed by the rename, overwrite, teardown loops
    all_files, all_dirs,          \* the engine's lists: [path, id], id the entry the
    renamed_files, renamed_dirs,  \*   path was recorded for (the code reads path only)
    total_files, success_count, failed_deletes, ret,
    outcome,         \* entry -> what happened to it
    last,            \* the operations of the latest secure_rename / secure_delete_file call
    faults,          \* filesystem errors injected so far
    flood,           \* the state of a flood_journal call
    vss,             \* the state of a flood_vss call
    rn,              \* the state of a secure_rename call made on its own
    calls,           \* the calls of secure_delete_folder made so far
    mn,              \* the state of main
    sz,              \* the state of the total-size computation
    wr               \* the state of the write loop of secure_delete_file on its own

cfgVars  == <<tree, target, passes, rename_files, flood, vss, rn, calls, mn, wr>>
listVars == <<all_files, all_dirs, renamed_files, renamed_dirs, total_files>>
loopVars == <<ri, fi, di>>
vars == <<tree, target, passes, rename_files, disk, pc, ri, fi, di,
          all_files, all_dirs, renamed_files, renamed_dirs,
          total_files, success_count, failed_deletes, ret, outcome, last, faults,
          flood, vss, rn, calls, mn, sz, wr>>
soloVars == <<rn, mn>>

\* ------------------------------------------------------------------- trees
Entry == [parent : 0..(MaxNodes - 1), kind : {"file", "dir"}, size : Sizes]

WellFormed(t) ==
    \A n \in DOMAIN t :
        /\ t[n].parent < n
        /\ t[n].parent # 0 => t[t[n].parent].kind = "dir"
        /\ t[n].kind = "dir" => t[n].size = 0

Trees == UNION {{t \in [1..c -> Entry] : WellFormed(t)} : c \in 0..MaxNodes}

\* two sibling folders holding one file each
TwoFolders ==
    {<<[parent |-> 0, kind |-> "dir", size |-> 0], [parent |-> 0, kind |-> "dir", size |-> 0],
       [parent |-> 1, kind |-> "file", size |-> a], [parent |-> 2, kind |-> "file", size |-> b]>> :
        a \in Sizes, b \in Sizes}

OrigName(n) == [tok |-> n, len |-> 1, ext |-> "orig"]

InitDisk(t) ==
    [n \in 0..Len(t) |-> [name |-> OrigName(n), present |-> TRUE]]

RECURSIVE IsUnder(_, _, _)
\* entry n lies (at any depth) inside entry a
IsUnder(t, n, a) ==
    IF n = 0 THEN FALSE
    ELSE t[n].parent = a \/ IsUnder(t, t[n].parent, a)

Ids(t) == [i \in 1..Len(t) |-> i]

\* the entries of kind k directly inside p that are on disk, in listing order
Listing(t, d, p, k) ==
    SelectSeq(Ids(t), LAMBDA n : t[n].parent = p /\ t[n].kind = k /\ d[n].present)

RECURSIVE PathOf(_, _, _)
\* the path that currently leads to entry n
PathOf(t, d, n) ==
    IF n = 0 THEN <<>> ELSE Append(PathOf(t, d, t[n].parent), d[n].name)

\* the entries a path leads to: one entry, or none when the path is stale
Lookup(t, d, path) ==
    {n \in 0..Len(t) :
        /\ PathOf(t, d, n) = path
        /\ d[n].present
        /\ \A a \in 0..Len(t) : IsUnder(t, n, a) => d[a].present}

Exists(t, d, path) == Lookup(t, d, path) # {}

NodeAt(t, d, path) == CHOOSE n \in Lookup(t, d, path) : TRUE

HasEntries(t, d, n) == \E c \in 1..Len(t) : t[c].parent = n /\ d[c].present

\* --------------------------------------------------------------- exceptions
\* PermissionError is an OSError, and an OSError is an Exception
Subclass(exc, cls) ==
    \/ exc = cls
    \/ cls = "Exception"
    \/ exc = "PermissionError" /\ cls = "OSError"

Caught(exc, handlers) == \E h \in handlers : Subclass(exc, h)

Raisable == {"PermissionError", "OSError"}

NoFault == [site |-> "none", pass |-> 0, exc |-> "none"]

\* ------------------------------------------------- os.walk(topdown=False)
RECURSIVE WalkTopDown(_, _, _), WalkEachTopDown(_, _, _)
\* the walk with topdown=True: a directory is yielded before the ones inside it
WalkTopDown(t, d, top) ==
    <<[root |-> top, dirs |-> Listing(t, d, top, "dir"),
       files |-> Listing(t, d, top, "file")]>>
        \o WalkEachTopDown(t, d, Listing(t, d, top, "dir"))

WalkEachTopDown(t, d, ds) ==
    IF ds = <<>> THEN <<>>
    ELSE WalkTopDown(t, d, Head(ds)) \o WalkEachTopDown(t, d, Tail(ds))

RECURSIVE Walk(_, _, _), WalkEach(_, _, _)
\* the (root, dirs, files) triples os.walk yields below top, children first
Walk(t, d, top) ==
    WalkEach(t, d, Listing(t, d, top, "dir"))
        \o <<[root |-> top, dirs |-> Listing(t, d, top, "dir"),
              files |-> Listing(t, d, top, "file")]>>

WalkEach(t, d, ds) ==
    IF ds = <<>> THEN <<>> ELSE Walk(t, d, Head(ds)) \o WalkEach(t, d, Tail(ds))

RECURSIVE Collect(_, _)
\* the entries the inventory loop appends, in order, for field f of each triple
Collect(ys, f) ==
    IF ys = <<>> THEN <<>> ELSE ys[1][f] \o Collect(Tail(ys), f)

\* os.path.join(root, name) for each collected entry
Joined(t, d, ns) == [i \in 1..Len(ns) |-> [path |-> PathOf(t, d, ns[i]), id |-> ns[i]]]

\* ------------------------------------------------------ generate_random_name
\* a name no other (entry, pass) pair gets; pass 0 is the name an entry is created
\* with (MaxRenameArg is at least RenamePasses)
Token(n, i) == (MaxRenameArg + 1) * n + i

\* a token of nbytes characters, one per byte
token_chars(nbytes, tok) == [tok |-> tok, len |-> nbytes, ext |-> ""]

\* secrets.token_hex(nbytes): 2 * nbytes hex characters
token_hex(nbytes, tok) == [tok |-> tok, len |-> 2 * nbytes, ext |-> ""]

generate_random_name(length, tok) == token_hex(length \div 2, tok)

WithExt(name, e) == [name EXCEPT !.ext = e]

\* --------------------------------------------------------------- secure_rename
Parent(path) == SubSeq(path, 1, Len(path) - 1)

\* an except branch that gives the entry its first name back
RenameExceptRevert(t, d, current_path, log) ==
    [disk |-> IF Exists(t, d, current_path)
              THEN [d EXCEPT ![NodeAt(t, d, current_path)].name =
                                   OrigName(NodeAt(t, d, current_path))]
              ELSE d,
     ok |-> FALSE, path |-> <<>>, log |-> log]

\* lines 63-66: the except branch returns None and touches nothing
RenameExcept(t, d, current_path, log) ==
    [disk |-> d, ok |-> FALSE, path |-> <<>>, log |-> log]

RECURSIVE RenameLoop(_, _, _, _, _, _, _, _)
\* pass i of n_passes on current_path; the rename of pass failAt raises
RenameLoop(t, d, parent, current_path, i, n_passes, failAt, log) ==
    IF i > n_passes
    THEN [disk |-> d, ok |-> TRUE, path |-> current_path, log |-> log]
    ELSE IF failAt = i \/ ~Exists(t, d, current_path)
    THEN RenameExcept(t, d, current_path, log)
    ELSE LET n == NodeAt(t, d, current_path)
             random_name ==
                 IF t[n].kind = "file"
                 THEN WithExt(generate_random_name(NameLength, Token(n, i)), ".tmp")
                 ELSE generate_random_name(NameLength, Token(n, i))
             new_path == Append(parent, random_name)
         IN RenameLoop(t, [d EXCEPT ![n].name = random_name], parent, new_path,
                       i + 1, n_passes, failAt,
                       Append(log, [from |-> current_path, to |-> new_path]))

\* ok = FALSE stands for the None the except branch returns
secure_rename(t, d, path, n_passes, failAt) ==
    RenameLoop(t, d, Parent(path), path, 1, n_passes, failAt, <<>>)

\* ------------------------------------------------------------ secure_delete_file
Min(a, b) == IF a < b THEN a ELSE b

Max(a, b) == IF a > b THEN a ELSE b

Op(o, n) == [op |-> o, n |-> n]

\* a chunk that is always a whole chunk_size
FullChunk(remaining) == ChunkSize

\* line 386: chunk = min(chunk_size, remaining)
chunk(remaining) == Min(ChunkSize, remaining)

RECURSIVE ChunkWrites(_)
\* the writes of one pass: while remaining > 0, write min(chunk_size, remaining)
ChunkWrites(remaining) ==
    IF remaining > 0
    THEN <<Op("write", chunk(remaining))>>
             \o ChunkWrites(remaining - chunk(remaining))
    ELSE <<>>

RECURSIVE PassLoopSyncEach(_, _, _, _, _)
\* the pass loop with the flush and fsync inside it, once per pass
PassLoopSyncEach(file_size, i, n_passes, fault, log) ==
    IF i > n_passes THEN [log |-> log, raised |-> FALSE]
    ELSE IF fault.site = "write" /\ fault.pass = i
    THEN [log |-> Append(log, Op("seek", 0)), raised |-> TRUE]
    ELSE PassLoopSyncEach(file_size, i + 1, n_passes, fault,
                          Append(log, Op("seek", 0)) \o ChunkWrites(file_size)
                              \o <<Op("flush", 0), Op("fsync", 0)>>)

RECURSIVE PassLoop(_, _, _, _, _)
\* passes i..n_passes; a write fault raises at the first write of its pass
PassLoop(file_size, i, n_passes, fault, log) ==
    IF i > n_passes THEN [log |-> log, raised |-> FALSE]
    ELSE IF fault.site = "write" /\ fault.pass = i
    THEN [log |-> Append(log, Op("seek", 0)), raised |-> TRUE]
    ELSE PassLoop(file_size, i + 1, n_passes, fault,
                  Append(log, Op("seek", 0)) \o ChunkWrites(file_size))

\* the length of a file once opened: only the w modes truncate
OpenLength(mode, file_size) == IF mode \in {"wb", "w+b"} THEN 0 ELSE file_size

\* the except clauses without the catch-all
SdfHandlersPermissionOnly == {"PermissionError"}

SdfHandlers == {"PermissionError", "Exception"}

\* the except clauses: a caught exception returns False, any other one escapes
SdfExcept(d, exc, log) ==
    IF Caught(exc, SdfHandlers)
    THEN [disk |-> d, result |-> "False", raised |-> "none", log |-> log]
    ELSE [disk |-> d, result |-> "none", raised |-> exc, log |-> log]

SdfRemove(d, n, fault, log) ==
    IF fault.site = "remove"
    THEN SdfExcept(d, fault.exc, log)
    ELSE [disk |-> [d EXCEPT ![n].present = FALSE], result |-> "True",
          raised |-> "none", log |-> Append(log, Op("remove", 0))]

SdfOverwrite(d, n, file_size, n_passes, fault) ==
    IF fault.site = "open" THEN SdfExcept(d, fault.exc, <<>>)
    ELSE LET w == PassLoop(file_size, 1, n_passes, fault, <<Op("open", OpenLength("r+b", file_size))>>)
         IN IF w.raised
            THEN SdfExcept(d, fault.exc, Append(w.log, Op("close", 0)))
            ELSE IF fault.site = "fsync"
            THEN SdfExcept(d, fault.exc, w.log \o <<Op("flush", 0), Op("close", 0)>>)
            ELSE SdfRemove(d, n, fault,
                           w.log \o <<Op("flush", 0), Op("fsync", 0), Op("close", 0)>>)

\* the function without the branch of lines 363-369: an empty file is opened too
SdfAlwaysOverwrite(t, d, filepath, n_passes, fault) ==
    IF ~(Exists(t, d, filepath) /\ t[NodeAt(t, d, filepath)].kind = "file")
    THEN [disk |-> d, result |-> "None", raised |-> "none", log |-> <<>>]
    ELSE SdfOverwrite(d, NodeAt(t, d, filepath), t[NodeAt(t, d, filepath)].size,
                      n_passes, fault)

\* result "None" stands for falling off the end when the path is no regular file
secure_delete_file(t, d, filepath, n_passes, fault) ==
    IF ~(Exists(t, d, filepath) /\ t[NodeAt(t, d, filepath)].kind = "file")
    THEN [disk |-> d, result |-> "None", raised |-> "none", log |-> <<>>]
    ELSE LET n == NodeAt(t, d, filepath)
             file_size == t[n].size
         IN IF file_size = 0
            THEN SdfRemove(d, n, fault, <<>>)
            ELSE SdfOverwrite(d, n, file_size, n_passes, fault)

\* the faults a call on a file of this size can meet
FileFaults(file_size, n_passes) ==
    {NoFault}
    \cup {[site |-> "remove", pass |-> 0, exc |-> e] : e \in Raisable}
    \cup (IF file_size = 0 THEN {}
          ELSE {[site |-> s, pass |-> 0, exc |-> e] : s \in {"open", "fsync"}, e \in Raisable}
               \cup {[site |-> "write", pass |-> i, exc |-> e] :
                        i \in 1..n_passes, e \in Raisable})

\* ------------------------------------------------------- os.rmdir, shutil.rmtree
\* os.rmdir raises OSError on a directory that still has entries
rmdir(t, d, path, fault) ==
    LET n == NodeAt(t, d, path)
    IN IF ~Exists(t, d, path) \/ fault \/ HasEntries(t, d, n)
       THEN [disk |-> d, raised |-> "OSError"]
       ELSE [disk |-> [d EXCEPT ![n].present = FALSE], raised |-> "none"]

\* shutil.rmtree(path, ignore_errors=False): everything below path goes, or it raises
rmtree(t, d, path, fault) ==
    LET n == NodeAt(t, d, path)
    IN IF ~Exists(t, d, path) \/ fault
       THEN [disk |-> d, raised |-> "OSError"]
       ELSE [disk |-> [c \in DOMAIN d |->
                         IF c = n \/ (c # 0 /\ IsUnder(t, c, n))
                         THEN [d[c] EXCEPT !.present = FALSE] ELSE d[c]],
             raised |-> "none"]

\* ---------------------------------------------------------- secure_delete_folder
RECURSIVE WrittenBytes(_)
WrittenBytes(log) ==
    IF log = <<>> THEN 0
    ELSE (IF Head(log).op = "write" THEN Head(log).n ELSE 0) + WrittenBytes(Tail(log))

HasOp(log, o) == \E i \in 1..Len(log) : log[i].op = o

Fresh == [handed |-> FALSE, result |-> "none", removedBy |-> "none", writes |-> 0]

NoCall == [fn |-> "none", id |-> 0, log |-> <<>>, result |-> "none"]

\* what has gone from disk between d and e is charged to `how`
Charge(o, d, e, how) ==
    [n \in DOMAIN o |->
        IF d[n].present /\ ~e[n].present THEN [o[n] EXCEPT !.removedBy = how] ELSE o[n]]

Idle == [pc |-> "idle"]

\* the total-size computation before it starts: the position in all_files,
\* whether the entry at hand passed its existence check, the sum so far, the
\* entries counted and the entries an external process deleted meanwhile
NoSize == [i |-> 0, checked |-> FALSE, total |-> 0, counted |-> {}, gone |-> {}]

\* the disk at the call: a missing target is not on it
StartDisk(t, tgt) == [InitDisk(t) EXCEPT ![0].present = (tgt # "missing")]

\* the check of folder.exists() alone
ExistsOnly(tgt) == tgt # "missing"

\* lines 437-443: folder.exists() and folder.is_dir()
PassesChecks(tgt) == tgt # "missing" /\ tgt = "dir"

Init ==
    /\ tree \in Trees \cup TwoFolders
    /\ flood = Idle
    /\ vss = Idle
    /\ rn = Idle
    /\ mn = Idle
    /\ target \in {"dir", "file", "missing"}
    /\ target # "dir" => tree = <<>>
    /\ passes \in 1..MaxPasses
    /\ rename_files \in BOOLEAN
    /\ disk = StartDisk(tree, target)
    /\ pc = "start"
    /\ ri = 0 /\ fi = 0 /\ di = 0
    /\ all_files = <<>> /\ all_dirs = <<>>
    /\ renamed_files = <<>> /\ renamed_dirs = <<>>
    /\ total_files = 0 /\ success_count = 0
    /\ failed_deletes = <<>>
    /\ ret = "unset"
    /\ outcome = [n \in 1..Len(tree) |-> Fresh]
    /\ last = NoCall
    /\ faults = 0
    /\ calls = 1
    /\ sz = NoSize
    /\ wr = Idle

\* the phase that follows the rename phase, given the lists it left
AfterRename(files, dirs) ==
    IF Len(files) > 0 THEN "overwrite"
    ELSE IF Len(dirs) > 0 THEN "teardown" ELSE "root"

\* line 481: the phase that follows the total-size computation
AfterSize(files, dirs) ==
    IF rename_files /\ (Len(files) > 0 \/ Len(dirs) > 0)
    THEN "rename" ELSE AfterRename(files, dirs)

\* an inventory that is never taken for empty
NeverNothing(n_files, n_dirs) == FALSE

\* line 465: total_files == 0 and total_dirs == 0
NothingToDelete(n_files, n_dirs) == n_files = 0 /\ n_dirs = 0

\* lines 435-478: the fail-fast checks, the walk, the empty-inventory return
Inventory ==
    /\ pc = "start"
    /\ IF ~PassesChecks(target)
       THEN /\ pc' = "done"
            /\ ret' = "None"
            /\ UNCHANGED <<all_files, all_dirs, total_files>>
       ELSE LET ys == Walk(tree, disk, 0)
                fs == Joined(tree, disk, Collect(ys, "files"))
                ds == Joined(tree, disk, Collect(ys, "dirs"))
            IN /\ all_files' = fs
               /\ all_dirs' = ds
               /\ total_files' = Len(fs)
               /\ IF NothingToDelete(Len(fs), Len(ds))
                  THEN pc' = "done" /\ ret' = "parent"
                  ELSE /\ pc' = IF Len(fs) > 0 THEN "size" ELSE AfterSize(fs, ds)
                       /\ ret' = ret
    /\ UNCHANGED <<cfgVars, disk, loopVars, renamed_files, renamed_dirs,
                   success_count, failed_deletes, outcome, last, faults, sz>>

\* line 470, the filter of the generator: os.path.exists(f) for the next file
SizeExists ==
    /\ pc = "size"
    /\ ~sz.checked
    /\ sz.i < Len(all_files)
    /\ IF Exists(tree, disk, all_files[sz.i + 1].path)
       THEN /\ sz' = [sz EXCEPT !.checked = TRUE]
            /\ pc' = pc
       ELSE /\ sz' = [sz EXCEPT !.i = @ + 1]
            /\ pc' = IF sz.i + 1 = Len(all_files)
                     THEN AfterSize(all_files, all_dirs) ELSE pc
    /\ UNCHANGED <<cfgVars, disk, loopVars, listVars, success_count, failed_deletes,
                   ret, outcome, last, faults>>

\* line 470, the element of the generator: os.path.getsize(f) for a file that
\* passed the filter; it raises when the file is no longer there, and nothing
\* around the sum catches that
SizeRead ==
    /\ pc = "size"
    /\ sz.checked
    /\ LET f == all_files[sz.i + 1]
       IN IF Exists(tree, disk, f.path)
          THEN /\ sz' = [sz EXCEPT !.i = @ + 1, !.checked = FALSE,
                                   !.total = @ + tree[NodeAt(tree, disk, f.path)].size,
                                   !.counted = @ \cup {f.id}]
               /\ pc' = IF sz.i + 1 = Len(all_files)
                        THEN AfterSize(all_files, all_dirs) ELSE pc
          ELSE /\ sz' = sz
               /\ pc' = "raised"
    /\ UNCHANGED <<cfgVars, disk, loopVars, listVars, success_count, failed_deletes,
                   ret, outcome, last, faults>>

\* another process deletes an inventoried file while the total is computed
ExternalDelete ==
    /\ pc = "size"
    /\ \E n \in 1..Len(tree) :
         /\ tree[n].kind = "file"
         /\ disk[n].present
         /\ disk' = [disk EXCEPT ![n].present = FALSE]
         /\ sz' = [sz EXCEPT !.gone = @ \cup {n}]
    /\ UNCHANGED <<cfgVars, pc, loopVars, listVars, success_count, failed_deletes,
                   ret, outcome, last, faults>>

\* items_to_rename, line 486
ItemsToRename ==
    [i \in 1..(Len(all_files) + Len(all_dirs)) |->
        IF i <= Len(all_files)
        THEN [path |-> all_files[i].path, id |-> all_files[i].id, type |-> "file"]
        ELSE [path |-> all_dirs[i - Len(all_files)].path,
              id |-> all_dirs[i - Len(all_files)].id, type |-> "dir"]]

\* lines 492-526: one iteration of the rename loop; the last one swaps the lists
RenameItem ==
    /\ pc = "rename"
    /\ ri < Len(ItemsToRename)
    /\ LET item == ItemsToRename[ri + 1]
           live == Exists(tree, disk, item.path)
       IN \E failAt \in 0..RenamePasses :
            /\ failAt # 0 => live /\ faults < MaxFaults
            /\ LET r == secure_rename(tree, disk, item.path, RenamePasses, failAt)
                   kept == [path |-> IF r.ok THEN r.path ELSE item.path, id |-> item.id]
                   rf == IF live /\ item.type = "file"
                         THEN Append(renamed_files, kept) ELSE renamed_files
                   rd == IF live /\ item.type = "dir"
                         THEN Append(renamed_dirs, kept) ELSE renamed_dirs
                   finished == ri + 1 = Len(ItemsToRename)
               IN /\ disk' = IF live THEN r.disk ELSE disk
                  /\ last' = IF live
                             THEN [fn |-> "secure_rename", id |-> item.id, log |-> r.log,
                                   result |-> IF r.ok THEN "path" ELSE "None"]
                             ELSE last
                  /\ faults' = IF failAt # 0 THEN faults + 1 ELSE faults
                  /\ ri' = ri + 1
                  /\ renamed_files' = rf
                  /\ renamed_dirs' = rd
                  /\ all_files' = IF finished THEN rf ELSE all_files
                  /\ all_dirs' = IF finished THEN rd ELSE all_dirs
                  /\ pc' = IF finished THEN AfterRename(rf, rd) ELSE pc
    /\ UNCHANGED <<cfgVars, fi, di, total_files, success_count, failed_deletes, ret,
                   outcome, sz>>
\* counting every call that returned, whatever it returned
CountsAnyResult(result) == result \in {"True", "False", "None"}

\* `if secure_delete_file(...)`: True counts, False and None do not
Truthy(result) == result = "True"

\* lines 538-550: one iteration of the overwrite loop
SanitizeFile ==
    /\ pc = "overwrite"
    /\ fi < Len(all_files)
    /\ LET filepath == all_files[fi + 1].path
           live == Exists(tree, disk, filepath)
           n == NodeAt(tree, disk, filepath)
           finished == fi + 1 = Len(all_files)
           onward == IF ~finished THEN pc
                     ELSE IF Len(all_dirs) > 0 THEN "teardown" ELSE "root"
       IN IF ~live
          THEN /\ pc' = onward
               /\ UNCHANGED <<disk, success_count, outcome, last, faults>>
          ELSE \E fault \in FileFaults(tree[n].size, passes) :
                 /\ fault # NoFault => faults < MaxFaults
                 /\ LET r == secure_delete_file(tree, disk, filepath, passes, fault)
                    IN /\ disk' = r.disk
                       /\ success_count' =
                              IF Truthy(r.result) THEN success_count + 1 ELSE success_count
                       /\ pc' = IF r.raised # "none" THEN "raised" ELSE onward
                       /\ outcome' =
                              Charge([outcome EXCEPT ![n] =
                                         [handed |-> TRUE, result |-> r.result,
                                          removedBy |-> "none",
                                          writes |-> WrittenBytes(r.log)]],
                                     disk, r.disk, "sanitizer")
                       /\ last' = [fn |-> "secure_delete_file", id |-> n, log |-> r.log,
                                   result |-> r.result]
                       /\ faults' = IF fault # NoFault THEN faults + 1 ELSE faults
    /\ fi' = fi + 1
    /\ UNCHANGED <<cfgVars, ri, di, listVars, failed_deletes, ret, sz>>

\* lines 559-575: rmdir, on OSError rmtree and record; any exception is swallowed
TeardownDir(t, d, dirpath, rmdirFails, rmtreeFails) ==
    IF ~Exists(t, d, dirpath)
    THEN [disk |-> d, forced |-> FALSE, raised |-> "none", tried |-> <<>>]
    ELSE LET a == rmdir(t, d, dirpath, rmdirFails)
             b == rmtree(t, d, dirpath, rmtreeFails)
         IN IF a.raised = "none"
            THEN [disk |-> a.disk, forced |-> FALSE, raised |-> "none",
                  tried |-> <<"rmdir">>]
            ELSE IF ~Caught(a.raised, {"OSError"})
            THEN [disk |-> d, forced |-> FALSE,
                  raised |-> IF Caught(a.raised, {"Exception"}) THEN "none" ELSE a.raised,
                  tried |-> <<"rmdir">>]
            ELSE IF b.raised = "none"
            THEN [disk |-> b.disk, forced |-> TRUE, raised |-> "none",
                  tried |-> <<"rmdir", "rmtree">>]
            ELSE [disk |-> d, forced |-> FALSE,
                  raised |-> IF Caught(b.raised, {"Exception"}) THEN "none" ELSE b.raised,
                  tried |-> <<"rmdir", "rmtree">>]

\* lines 578-589: the same sequence on the root folder
TeardownRoot(t, d, rmdirFails, rmtreeFails) ==
    LET a == rmdir(t, d, <<>>, rmdirFails)
        b == rmtree(t, d, <<>>, rmtreeFails)
    IN IF a.raised = "none"
       THEN [disk |-> a.disk, forced |-> FALSE, raised |-> "none", tried |-> <<"rmdir">>]
       ELSE IF ~Caught(a.raised, {"OSError"})
       THEN [disk |-> d, forced |-> FALSE, raised |-> a.raised, tried |-> <<"rmdir">>]
       ELSE IF b.raised = "none"
       THEN [disk |-> b.disk, forced |-> TRUE, raised |-> "none",
             tried |-> <<"rmdir", "rmtree">>]
       ELSE [disk |-> d, forced |-> FALSE,
             raised |-> IF Caught(b.raised, {"Exception"}) THEN "none" ELSE b.raised,
             tried |-> <<"rmdir", "rmtree">>]

\* an injected rmdir error needs an empty directory (a non-empty one fails by
\* itself); an injected rmtree error needs the rmdir to have failed
FaultChoice(t, d, path, rmdirFails, rmtreeFails) ==
    /\ rmdirFails => Exists(t, d, path) /\ ~HasEntries(t, d, NodeAt(t, d, path))
    /\ rmtreeFails => Exists(t, d, path)
                      /\ (rmdirFails \/ HasEntries(t, d, NodeAt(t, d, path)))

Count(b) == IF b THEN 1 ELSE 0

\* one iteration of the directory loop
RemoveDir ==
    /\ pc = "teardown"
    /\ di < Len(all_dirs)
    /\ LET dirpath == all_dirs[di + 1].path
       IN \E rmdirFails \in BOOLEAN, rmtreeFails \in BOOLEAN :
            /\ FaultChoice(tree, disk, dirpath, rmdirFails, rmtreeFails)
            /\ faults + Count(rmdirFails) + Count(rmtreeFails) <= MaxFaults
            /\ LET r == TeardownDir(tree, disk, dirpath, rmdirFails, rmtreeFails)
               IN /\ disk' = r.disk
                  /\ failed_deletes' =
                         IF r.forced THEN Append(failed_deletes, dirpath) ELSE failed_deletes
                  /\ outcome' = Charge(outcome, disk, r.disk,
                                       IF r.forced THEN "rmtree" ELSE "rmdir")
                  /\ last' = [fn |-> "teardown", id |-> all_dirs[di + 1].id,
                              log |-> r.tried, result |-> "none"]
                  /\ faults' = faults + Count(rmdirFails) + Count(rmtreeFails)
                  /\ pc' = IF r.raised # "none" THEN "raised"
                           ELSE IF di + 1 = Len(all_dirs) THEN "root" ELSE pc
    /\ di' = di + 1
    /\ UNCHANGED <<cfgVars, ri, fi, listVars, success_count, ret, sz>>

\* the root removal and the return of folder.parent, lines 577-620
RemoveRoot ==
    /\ pc = "root"
    /\ \E rmdirFails \in BOOLEAN, rmtreeFails \in BOOLEAN :
         /\ FaultChoice(tree, disk, <<>>, rmdirFails, rmtreeFails)
         /\ faults + Count(rmdirFails) + Count(rmtreeFails) <= MaxFaults
         /\ LET r == TeardownRoot(tree, disk, rmdirFails, rmtreeFails)
            IN /\ disk' = r.disk
               /\ failed_deletes' =
                      IF r.forced THEN Append(failed_deletes, <<>>) ELSE failed_deletes
               /\ outcome' = Charge(outcome, disk, r.disk,
                                    IF r.forced THEN "rmtree" ELSE "rmdir")
               /\ last' = [fn |-> "teardown", id |-> 0, log |-> r.tried, result |-> "none"]
               /\ faults' = faults + Count(rmdirFails) + Count(rmtreeFails)
               /\ pc' = IF r.raised # "none" THEN "raised" ELSE "done"
               /\ ret' = IF r.raised # "none" THEN ret ELSE "parent"
    /\ UNCHANGED <<cfgVars, loopVars, listVars, success_count, sz>>

\* the caller calls again on the directory a call found empty and left as it was
CallAgain ==
    /\ pc = "done"
    /\ ret = "parent"
    /\ last = NoCall
    /\ calls < MaxCalls
    /\ pc' = "start"
    /\ ret' = "unset"
    /\ calls' = calls + 1
    /\ UNCHANGED <<tree, target, passes, rename_files, flood, vss, rn, mn, disk, loopVars,
                   listVars, success_count, failed_deletes, outcome, last, faults,
                   sz, wr>>

Next ==
    \/ Inventory
    \/ SizeExists
    \/ SizeRead
    \/ RenameItem
    \/ SanitizeFile
    \/ RemoveDir
    \/ RemoveRoot
    \/ CallAgain

Spec == Init /\ [][Next]_vars

\* the same call while another process deletes files under the folder
RaceNext ==
    \/ Next
    \/ ExternalDelete

RaceSpec == Init /\ [][RaceNext]_vars

\* --------------------------------------------------------------- flood_journal
\* The temporary directory is entry 0 of the disk and the dummy files are the
\* entries below it, added to the tree as they are created.  An optional
\* number is a record: None is [known |-> FALSE].  Of a run over more than
\* MaxFloodFiles files the first MaxFloodFiles are followed.
None == [known |-> FALSE, v |-> 0]
Some(x) == [known |-> TRUE, v |-> x]

Followed(n) == Min(n, MaxFloodFiles)

\* what get_journal_size can give for max_size, in bytes
JournalSizes ==
    {None, Some(0), Some(1000), Some(33554432), Some(67108864), Some(268435456),
     Some(700000000)}

\* the count as computed, with no clamp
NoClamp(n) == n

\* line 651: max(50000, min(num_files, 500000))
Clamp(n) == Max(MinAutoFiles, Min(n, MaxAutoFiles))

\* lines 640-663: the count when num_files is None.  int(max_size * 1.5 /
\* bytes_per_file) is the floor of 3 * max_size / (2 * bytes_per_file).
JournalAutoCount(platform, drive_letter, max_size, raises) ==
    IF platform # "win32" THEN FallbackFiles
    ELSE IF raises THEN FallbackFiles
    ELSE IF ~drive_letter THEN FallbackFiles
    ELSE IF max_size.known /\ max_size.v # 0
    THEN Clamp((max_size.v * 3) \div (2 * (BytesPerOperation * OperationsPerFile)))
    ELSE FallbackFiles
folderVars == <<target, passes, rename_files, pc, ri, fi, di, all_files, all_dirs,
                renamed_files, renamed_dirs, total_files, success_count,
                failed_deletes, ret, outcome, calls, sz, wr>>

FolderIdle ==
    /\ target = "dir" /\ passes = 1 /\ rename_files = FALSE
    /\ pc = "idle" /\ ri = 0 /\ fi = 0 /\ di = 0
    /\ all_files = <<>> /\ all_dirs = <<>>
    /\ renamed_files = <<>> /\ renamed_dirs = <<>>
    /\ total_files = 0 /\ success_count = 0
    /\ failed_deletes = <<>> /\ ret = "unset" /\ outcome = <<>>
    /\ calls = 0
    /\ sz = NoSize

\* the disk of a flood call: its temporary directory, not made yet
TempDisk == [n \in {0} |-> [name |-> OrigName(0), present |-> FALSE]]

\* a call flood_journal(path, num_files=arg), and what its capacity query meets
JournalCall(platform, arg, drive, raises, max_size) ==
    [pc |-> "size", platform |-> platform, arg |-> arg,
     drive_letter |-> drive, raises |-> raises, max_size |-> max_size,
     num_files |-> 0, created_files |-> <<>>, i |-> 0,
     stopped |-> "none", cleanup |-> "none"]

JournalInit ==
    /\ FolderIdle
    /\ wr = Idle
    /\ tree = <<>>
    /\ disk = TempDisk
    /\ \E platform \in {"win32", "linux"}, drive \in BOOLEAN, raises \in BOOLEAN,
          arg \in {None} \cup {Some(k) : k \in 0..MaxFloodFiles},
          max_size \in JournalSizes :
          /\ (platform # "win32" \/ arg # None) =>
                 drive /\ ~raises /\ max_size = None
          /\ (raises \/ ~drive) => max_size = None
          /\ ~(raises /\ ~drive)
          /\ flood = JournalCall(platform, arg, drive, raises, max_size)
    /\ vss = Idle
    /\ rn = Idle
    /\ mn = Idle
    /\ last = NoCall
    /\ faults = 0

\* an except branch that removes nothing
NoCleanup(t, d, rmtreeFails) == d

\* the outer except branch, lines 751-759: rmtree of temp_dir if it exists,
\* with any error of the cleanup swallowed
FloodCleanup(t, d, rmtreeFails) ==
    IF Exists(t, d, <<>>) /\ rmtree(t, d, <<>>, rmtreeFails).raised = "none"
    THEN rmtree(t, d, <<>>, rmtreeFails).disk
    ELSE d

\* the phase that follows, given the number of files the loops run over
FloodNext(phase, n) ==
    IF phase = "mkdir" THEN (IF n > 0 THEN "create" ELSE "rmdir")
    ELSE IF phase = "create" THEN "rename"
    ELSE IF phase = "rename" THEN "delete"
    ELSE "rmdir"

\* lines 640-663: num_files as given, or sized from the journal
JfSize ==
    /\ flood.pc = "size"
    /\ flood' = [flood EXCEPT
                   !.pc = "mkdir",
                   !.num_files = IF flood.arg = None
                                 THEN JournalAutoCount(flood.platform, flood.drive_letter,
                                                       flood.max_size, flood.raises)
                                 ELSE flood.arg.v]
    /\ UNCHANGED <<folderVars, soloVars, tree, disk, vss, last, faults>>

\* temp_dir.mkdir(exist_ok=True), line 673
JfMkdir ==
    /\ flood.pc = "mkdir"
    /\ \E fails \in BOOLEAN :
         /\ fails => faults < MaxFaults
         /\ IF fails
            THEN /\ disk' = FloodCleanup(tree, disk, FALSE)
                 /\ flood' = [flood EXCEPT !.pc = "done", !.stopped = "mkdir"]
            ELSE /\ disk' = [disk EXCEPT ![0].present = TRUE]
                 /\ flood' = [flood EXCEPT !.pc = FloodNext("mkdir", Followed(flood.num_files))]
         /\ faults' = faults + Count(fails)
    /\ UNCHANGED <<folderVars, soloVars, tree, vss, last>>

\* lines 682-694: one dummy file; write_bytes creates the file and then writes
\* it, so an error of the write leaves a file the list does not hold
JfCreate ==
    /\ flood.pc = "create"
    /\ flood.i < Followed(flood.num_files)
    /\ LET n == Len(tree) + 1
           name == WithExt(token_hex(DummyNameBytes, Token(n, 0)), ".tmp")
           made == [tree |-> Append(tree, [parent |-> 0, kind |-> "file", size |-> DummyBytes]),
                    disk |-> [c \in 0..n |->
                                 IF c = n THEN [name |-> name, present |-> TRUE]
                                 ELSE disk[c]]]
       IN \E site \in {"none", "open", "write"}, rmtreeFails \in BOOLEAN :
            /\ rmtreeFails => site # "none"
            /\ faults + Count(site # "none") + Count(rmtreeFails) <= MaxFaults
            /\ faults' = faults + Count(site # "none") + Count(rmtreeFails)
            /\ IF site = "none"
               THEN /\ tree' = made.tree
                    /\ disk' = made.disk
                    /\ flood' = [flood EXCEPT
                                   !.created_files = Append(@, [path |-> <<name>>, id |-> n]),
                                   !.i = IF @ + 1 = Followed(flood.num_files) THEN 0 ELSE @ + 1,
                                   !.pc = IF flood.i + 1 = Followed(flood.num_files)
                                          THEN FloodNext("create", flood.num_files) ELSE @]
               ELSE /\ tree' = IF site = "write" THEN made.tree ELSE tree
                    /\ disk' = IF site = "write"
                               THEN FloodCleanup(made.tree, made.disk, rmtreeFails)
                               ELSE FloodCleanup(tree, disk, rmtreeFails)
                    /\ flood' = [flood EXCEPT
                                   !.pc = "done", !.stopped = "create",
                                   !.cleanup = IF rmtreeFails THEN "failed" ELSE "ok"]
    /\ UNCHANGED <<folderVars, soloVars, vss, last>>

\* lines 700-709: secure_rename on each created path, its result dropped
JfRename ==
    /\ flood.pc = "rename"
    /\ flood.i < Len(flood.created_files)
    /\ LET file_path == flood.created_files[flood.i + 1].path
           live == Exists(tree, disk, file_path)
       IN \E failAt \in 0..RenamePasses :
            /\ failAt # 0 => live /\ faults < MaxFaults
            /\ LET r == secure_rename(tree, disk, file_path, RenamePasses, failAt)
               IN /\ disk' = IF live THEN r.disk ELSE disk
                  /\ last' = IF live
                             THEN [fn |-> "secure_rename",
                                   id |-> flood.created_files[flood.i + 1].id,
                                   log |-> r.log,
                                   result |-> IF r.ok THEN "path" ELSE "None"]
                             ELSE last
            /\ faults' = faults + Count(failAt # 0)
    /\ flood' = [flood EXCEPT
                   !.i = IF @ + 1 = Len(flood.created_files) THEN 0 ELSE @ + 1,
                   !.pc = IF flood.i + 1 = Len(flood.created_files)
                          THEN FloodNext("rename", flood.num_files) ELSE @]
    /\ UNCHANGED <<folderVars, soloVars, tree, vss>>

\* file_path.unlink() guarded by file_path.exists(), errors swallowed
UnlinkIfExists(t, d, path, fails) ==
    IF Exists(t, d, path) /\ ~fails
    THEN [d EXCEPT ![NodeAt(t, d, path)].present = FALSE]
    ELSE d

\* lines 715-730: one iteration of the delete loop
JfDelete ==
    /\ flood.pc = "delete"
    /\ flood.i < Len(flood.created_files)
    /\ LET file_path == flood.created_files[flood.i + 1].path
       IN \E fails \in BOOLEAN :
            /\ fails => Exists(tree, disk, file_path) /\ faults < MaxFaults
            /\ disk' = UnlinkIfExists(tree, disk, file_path, fails)
            /\ faults' = faults + Count(fails)
    /\ flood' = [flood EXCEPT
                   !.i = IF @ + 1 = Len(flood.created_files) THEN 0 ELSE @ + 1,
                   !.pc = IF flood.i + 1 = Len(flood.created_files)
                          THEN FloodNext("delete", flood.num_files) ELSE @]
    /\ UNCHANGED <<folderVars, soloVars, tree, vss, last>>

\* lines 732-736: temp_dir.rmdir(), errors swallowed, then the return
JfRmdir ==
    /\ flood.pc = "rmdir"
    /\ \E fails \in BOOLEAN :
         /\ fails => ~HasEntries(tree, disk, 0) /\ faults < MaxFaults
         /\ LET r == rmdir(tree, disk, <<>>, fails)
            IN disk' = IF r.raised = "none" THEN r.disk ELSE disk
         /\ faults' = faults + Count(fails)
    /\ flood' = [flood EXCEPT !.pc = "done"]
    /\ UNCHANGED <<folderVars, soloVars, tree, vss, last>>

JournalNext ==
    \/ JfSize
    \/ JfMkdir
    \/ JfCreate
    \/ JfRename
    \/ JfDelete
    \/ JfRmdir

JournalSpec == JournalInit /\ [][JournalNext]_vars

\* --------------------------------------------------- secure_rename on its own
\* A call secure_rename(path, passes) on an entry of a tree, one pass a step.
\* The path may name an entry that is not on disk.
RenameInit ==
    /\ FolderIdle
    /\ wr = Idle
    /\ tree \in Trees \ {<<>>}
    /\ flood = Idle
    /\ vss = Idle
    /\ mn = Idle
    /\ last = NoCall
    /\ faults = 0
    /\ \E n \in 1..Len(tree), k \in 0..MaxRenameArg, there \in BOOLEAN :
          /\ disk = [InitDisk(tree) EXCEPT ![n].present = there]
          /\ rn = [pc |-> "loop", path |-> PathOf(tree, InitDisk(tree), n), id |-> n,
                   passes |-> k, current_path |-> PathOf(tree, InitDisk(tree), n),
                   i |-> 0, log |-> <<>>, result |-> "unset", failed |-> 0]

\* lines 45-60: one pass of the loop; an exception ends the call in the except
\* branch, which returns None
RnPass ==
    /\ rn.pc = "loop"
    /\ rn.i < rn.passes
    /\ \E fails \in BOOLEAN :
         /\ fails => faults < MaxFaults
         /\ LET r == RenameLoop(tree, disk, Parent(rn.path), rn.current_path,
                                rn.i + 1, rn.i + 1, IF fails THEN rn.i + 1 ELSE 0, rn.log)
            IN /\ disk' = r.disk
               /\ rn' = IF r.ok
                         THEN [rn EXCEPT !.current_path = r.path, !.i = @ + 1,
                                         !.log = r.log]
                         ELSE [rn EXCEPT !.pc = "done", !.result = "None",
                                         !.failed = rn.i + 1]
         /\ faults' = faults + Count(fails)
    /\ UNCHANGED <<folderVars, mn, tree, flood, vss, last>>

\* line 62: return current_path
RnReturn ==
    /\ rn.pc = "loop"
    /\ rn.i = rn.passes
    /\ rn' = [rn EXCEPT !.pc = "done", !.result = "path"]
    /\ UNCHANGED <<folderVars, mn, tree, disk, flood, vss, last, faults>>

RenameNext ==
    \/ RnPass
    \/ RnReturn

RenameSpec == RenameInit /\ [][RenameNext]_vars

\* ------------------------------------- the write loop of secure_delete_file
\* The passes of secure_delete_file on an open file of file_size bytes, one
\* seek or one chunk a step; wr.log holds one sequence of operations per pass.
notWr == <<tree, target, passes, rename_files, disk, pc, ri, fi, di,
           all_files, all_dirs, renamed_files, renamed_dirs,
           total_files, success_count, failed_deletes, ret, outcome, last, faults,
           flood, vss, rn, calls, mn, sz>>

\* the lengths written: whole chunks, one byte more, one byte less
FileSizes ==
    {c * ChunkSize + r : c \in 0..MaxChunks, r \in {0, 1, ChunkSize - 1}} \ {0}

ChunkInit ==
    /\ FolderIdle
    /\ tree = <<>>
    /\ disk = TempDisk
    /\ flood = Idle
    /\ vss = Idle
    /\ rn = Idle
    /\ mn = Idle
    /\ last = NoCall
    /\ faults = 0
    /\ \E file_size \in FileSizes, n_passes \in 1..MaxPasses :
          wr = [pc |-> "pass", file_size |-> file_size, passes |-> n_passes,
                i |-> 0, remaining |-> 0, log |-> <<>>]

\* lines 381-383: the next pass begins: f.seek(0), remaining = file_size
WrSeek ==
    /\ wr.pc = "pass"
    /\ wr.i < wr.passes
    /\ wr' = [wr EXCEPT !.pc = "chunk", !.remaining = wr.file_size,
                        !.log = Append(@, <<Op("seek", 0)>>)]
    /\ UNCHANGED notWr

\* lines 385-388: one iteration of while remaining > 0
WrChunk ==
    /\ wr.pc = "chunk"
    /\ wr.remaining > 0
    /\ wr' = [wr EXCEPT !.remaining = @ - chunk(wr.remaining),
                        !.log[Len(wr.log)] = Append(@, Op("write", chunk(wr.remaining)))]
    /\ UNCHANGED notWr

\* line 385: remaining > 0 is false, the pass is over
WrPassEnd ==
    /\ wr.pc = "chunk"
    /\ ~(wr.remaining > 0)
    /\ wr' = [wr EXCEPT !.pc = "pass", !.i = @ + 1]
    /\ UNCHANGED notWr

\* line 381: range(passes) is exhausted
WrDone ==
    /\ wr.pc = "pass"
    /\ wr.i = wr.passes
    /\ wr' = [wr EXCEPT !.pc = "done"]
    /\ UNCHANGED notWr

ChunkNext ==
    \/ WrSeek
    \/ WrChunk
    \/ WrPassEnd
    \/ WrDone

\* the loop runs in one thread that nothing suspends: a step that can be
\* taken is taken
ChunkSpec == ChunkInit /\ [][ChunkNext]_vars /\ WF_vars(ChunkNext)

\* ------------------------------------------------------------------- flood_vss
\* Byte counts of flood_vss are in MiB; -1 is the sentinel of an unbounded
\* allocation.

ArgValues == {None, Some(0 - 5), Some(0), Some(50), Some(200), Some(250)}
MaxSpaceValues == {None, Some(0 - 1), Some(0), Some(1), Some(125), Some(127), Some(1000)}

\* the target with the whole of max_space taken, not 0.8 of it
VssAutoTargetFull(drive_letter, max_space, raises) ==
    IF raises THEN DefaultTargetGiB * GiB
    ELSE IF ~drive_letter THEN DefaultTargetGiB * GiB
    ELSE IF max_space.known /\ max_space.v # 0 /\ max_space.v > 0
    THEN max_space.v
    ELSE IF (max_space.known /\ max_space.v = 0 - 1) \/ ~max_space.known
    THEN UnboundedTargetGiB * GiB
    ELSE DefaultTargetGiB * GiB

\* the target with no branch for the sentinel -1
VssAutoTargetNoSentinel(drive_letter, max_space, raises) ==
    IF raises THEN DefaultTargetGiB * GiB
    ELSE IF ~drive_letter THEN DefaultTargetGiB * GiB
    ELSE IF max_space.known /\ max_space.v # 0 /\ max_space.v > 0
    THEN (max_space.v * 8) \div 10
    ELSE IF ~max_space.known
    THEN UnboundedTargetGiB * GiB
    ELSE DefaultTargetGiB * GiB

\* lines 782-813: the target, in MiB, when target_size_gb is None
VssAutoTarget(drive_letter, max_space, raises) ==
    IF raises THEN DefaultTargetGiB * GiB
    ELSE IF ~drive_letter THEN DefaultTargetGiB * GiB
    ELSE IF max_space.known /\ max_space.v # 0 /\ max_space.v > 0
    THEN (max_space.v * 8) \div 10
    ELSE IF (max_space.known /\ max_space.v = 0 - 1) \/ ~max_space.known
    THEN UnboundedTargetGiB * GiB
    ELSE DefaultTargetGiB * GiB

\* a call flood_vss(path, target_size_gb=arg), and what its capacity query meets
VssCall(platform, arg, drive, raises, max_space) ==
    [pc |-> "size", platform |-> platform, arg |-> arg,
     drive_letter |-> drive, raises |-> raises, max_space |-> max_space,
     target |-> 0, num_files |-> 0, bytes_written |-> 0,
     created_files |-> <<>>, deleted |-> 0, tried |-> <<>>,
     stopped |-> "none", cleanup |-> "none"]

VssInit ==
    /\ FolderIdle
    /\ wr = Idle
    /\ tree = <<>>
    /\ disk = TempDisk
    /\ flood = Idle
    /\ rn = Idle
    /\ mn = Idle
    /\ \E platform \in {"win32", "linux"}, arg \in ArgValues, drive \in BOOLEAN,
          raises \in BOOLEAN, max_space \in MaxSpaceValues :
          /\ platform # "win32" => arg = None
          /\ (platform # "win32" \/ arg # None) =>
                 drive /\ ~raises /\ max_space = None
          /\ (raises \/ ~drive) => max_space = None
          /\ ~(raises /\ ~drive)
          /\ vss = VssCall(platform, arg, drive, raises, max_space)
    /\ last = NoCall
    /\ faults = 0

\* lines 777-829: the platform check, the target and the file count
VssSize ==
    /\ vss.pc = "size"
    /\ IF vss.platform # "win32"
       THEN vss' = [vss EXCEPT !.pc = "done"]
       ELSE LET target_bytes ==
                    IF vss.arg = None
                    THEN VssAutoTarget(vss.drive_letter, vss.max_space, vss.raises)
                    ELSE vss.arg.v
            IN vss' = [vss EXCEPT !.pc = "mkdir", !.target = target_bytes,
                                  !.num_files = Max(1, target_bytes \div VssFileSize)]
    /\ UNCHANGED <<folderVars, soloVars, tree, disk, flood, last, faults>>

\* temp_dir.mkdir(exist_ok=True), line 823
VssMkdir ==
    /\ vss.pc = "mkdir"
    /\ \E fails \in BOOLEAN :
         /\ fails => faults < MaxVssFaults
         /\ IF fails
            THEN /\ disk' = FloodCleanup(tree, disk, FALSE)
                 /\ vss' = [vss EXCEPT !.pc = "done", !.stopped = "mkdir"]
            ELSE /\ disk' = [disk EXCEPT ![0].present = TRUE]
                 /\ vss' = [vss EXCEPT !.pc = "create"]
         /\ faults' = faults + Count(fails)
    /\ UNCHANGED <<folderVars, soloVars, tree, flood, last>>

RECURSIVE VssFileWrites(_)
\* the chunks of one file: while remaining > 0, write min(chunk_size, remaining)
VssFileWrites(remaining) ==
    IF remaining > 0
    THEN <<Op("write", Min(VssChunkSize, remaining))>>
             \o VssFileWrites(remaining - Min(VssChunkSize, remaining))
    ELSE <<>>

\* an exit taken one file before the target is reached
VssReachedEarly(bytes_written, target_bytes) == bytes_written + VssFileSize >= target_bytes

\* line 872: if bytes_written >= target_bytes: break
VssReached(bytes_written, target_bytes) == bytes_written >= target_bytes

\* f"vss_flood_{i:06d}.dat"
VssName(i) == [tok |-> i, len |-> 16, ext |-> ".dat"]

\* lines 855-873: one iteration of the creation loop.  open(file_path, 'wb')
\* creates the file, so an error of a write leaves a file the list does not
\* hold; either error ends in the outer except branch.
VssCreateFile ==
    /\ vss.pc = "create"
    /\ Len(vss.created_files) < vss.num_files
    /\ LET i == Len(vss.created_files)
           n == Len(tree) + 1
           chunks == VssFileWrites(VssFileSize)
           written == vss.bytes_written + WrittenBytes(chunks)
           made == [tree |-> Append(tree, [parent |-> 0, kind |-> "file",
                                           size |-> WrittenBytes(chunks)]),
                    disk |-> [c \in 0..n |->
                                 IF c = n THEN [name |-> VssName(i), present |-> TRUE]
                                 ELSE disk[c]]]
           torn == [tree |-> Append(tree, [parent |-> 0, kind |-> "file", size |-> 0]),
                    disk |-> made.disk]
       IN \E site \in {"none", "open", "write"}, rmtreeFails \in BOOLEAN :
            /\ rmtreeFails => site # "none"
            /\ faults + Count(site # "none") + Count(rmtreeFails) <= MaxVssFaults
            /\ faults' = faults + Count(site # "none") + Count(rmtreeFails)
            /\ IF site = "none"
               THEN /\ tree' = made.tree
                    /\ disk' = made.disk
                    /\ last' = [fn |-> "write_file", id |-> n, log |-> chunks,
                                result |-> "none"]
                    /\ vss' = [vss EXCEPT
                                 !.created_files = Append(@, [path |-> <<VssName(i)>>, id |-> n]),
                                 !.bytes_written = written,
                                 !.pc = IF VssReached(written, vss.target) \/ i + 1 = vss.num_files
                                        THEN "delete" ELSE @]
               ELSE /\ tree' = IF site = "write" THEN torn.tree ELSE tree
                    /\ disk' = IF site = "write"
                               THEN FloodCleanup(torn.tree, torn.disk, rmtreeFails)
                               ELSE FloodCleanup(tree, disk, rmtreeFails)
                    /\ last' = last
                    /\ vss' = [vss EXCEPT
                                 !.pc = "done", !.stopped = "create",
                                 !.cleanup = IF rmtreeFails THEN "failed" ELSE "ok"]
    /\ UNCHANGED <<folderVars, soloVars, flood>>

\* a delete loop that a failed unlink ends
AfterUnlinkAbort(failed, i, n) ==
    IF failed \/ i + 1 = n THEN "rmdir" ELSE "delete"

\* lines 889-893: `except Exception: pass`, the loop goes on to the next file
AfterUnlink(failed, i, n) ==
    IF i + 1 = n THEN "rmdir" ELSE "delete"

\* lines 888-893: one iteration of the delete loop; tried lists the files
\* unlink was called on
VssDeleteFile ==
    /\ vss.pc = "delete"
    /\ vss.deleted < Len(vss.created_files)
    /\ LET file_path == vss.created_files[vss.deleted + 1].path
       IN \E fails \in BOOLEAN :
            /\ fails => Exists(tree, disk, file_path) /\ faults < MaxVssFaults
            /\ disk' = UnlinkIfExists(tree, disk, file_path, fails)
            /\ faults' = faults + Count(fails)
            /\ vss' = [vss EXCEPT
                         !.deleted = @ + 1,
                         !.tried = IF Exists(tree, disk, file_path)
                                   THEN Append(@, vss.created_files[vss.deleted + 1].id)
                                   ELSE @,
                         !.pc = AfterUnlink(fails, vss.deleted, Len(vss.created_files))]
    /\ UNCHANGED <<folderVars, soloVars, tree, flood, last>>

\* lines 895-899: temp_dir.rmdir(), errors swallowed, then the return
VssRmdir ==
    /\ vss.pc = "rmdir"
    /\ \E fails \in BOOLEAN :
         /\ fails => ~HasEntries(tree, disk, 0) /\ faults < MaxVssFaults
         /\ LET r == rmdir(tree, disk, <<>>, fails)
            IN disk' = IF r.raised = "none" THEN r.disk ELSE disk
         /\ faults' = faults + Count(fails)
    /\ vss' = [vss EXCEPT !.pc = "done"]
    /\ UNCHANGED <<folderVars, soloVars, tree, flood, last>>

VssNext ==
    \/ VssSize
    \/ VssMkdir
    \/ VssCreateFile
    \/ VssDeleteFile
    \/ VssRmdir

VssSpec == VssInit /\ [][VssNext]_vars

\* ------------------------------------------------------- either flood function
FloodsInit == JournalInit \/ VssInit

FloodsNext ==
    \/ JournalNext
    \/ VssNext

FloodSpec == FloodsInit /\ [][FloodsNext]_vars

\* ------------------------------------------------------------------------ main
\* main from the test of folder_path.exists() to the last flood call.  The
\* options --flood-vss and --flood-journal are None when not given and -1 when
\* given without a value.  A flood call works in a temporary directory of its
\* own below the parent directory: the disk of the call is that directory.
\* validate_deletion and the cipher prompt that follow are left out.
Responses == {"DELETE", "delete", "DELETE ", "", "yes"}

\* a comparison that ignores case and blanks
ConfirmedLoosely(response) == response \in {"DELETE", "delete", "DELETE "}

\* line 1491: response != 'DELETE' cancels
Confirmed(response) == response = "DELETE"

\* a test every value passes
AnyValue(v) == TRUE

\* `and parent_dir`: None is false, a Path is true
PathTruthy(v) == v # "None"

MainTrees == {t \in Trees : Len(t) <= MaxMainNodes}

MainInit ==
    /\ tree \in MainTrees
    /\ target \in {"dir", "file", "missing"}
    /\ target # "dir" => tree = <<>>
    /\ passes \in 1..MaxPasses
    /\ rename_files \in BOOLEAN
    /\ disk = StartDisk(tree, target)
    /\ pc = "idle"
    /\ ri = 0 /\ fi = 0 /\ di = 0
    /\ all_files = <<>> /\ all_dirs = <<>>
    /\ renamed_files = <<>> /\ renamed_dirs = <<>>
    /\ total_files = 0 /\ success_count = 0
    /\ failed_deletes = <<>>
    /\ ret = "unset"
    /\ outcome = [n \in 1..Len(tree) |-> Fresh]
    /\ last = NoCall
    /\ faults = 0
    /\ calls = 0
    /\ sz = NoSize
    /\ wr = Idle
    /\ flood = Idle
    /\ vss = Idle
    /\ rn = Idle
    /\ \E response \in Responses, platform \in {"win32", "linux"},
          fv \in {None, Some(0 - 1), Some(50)}, fj \in {None, Some(0 - 1), Some(1)} :
          mn = [pc |-> "check", response |-> response, platform |-> platform,
                flood_vss |-> fv, flood_journal |-> fj,
                parent_dir |-> "unset", log |-> <<>>]

\* lines 1462-1464: a missing folder ends main before the confirmation
MainCheck ==
    /\ mn.pc = "check"
    /\ mn' = [mn EXCEPT !.pc = IF target = "missing" THEN "exit" ELSE "confirm"]
    /\ UNCHANGED <<folderVars, rn, tree, disk, flood, vss, last, faults>>

\* lines 1487-1496: the confirmation, then the call of secure_delete_folder
MainConfirm ==
    /\ mn.pc = "confirm"
    /\ IF Confirmed(mn.response)
       THEN /\ mn' = [mn EXCEPT !.pc = "delete",
                                !.log = Append(@, [fn |-> "secure_delete_folder",
                                                   path |-> "folder"])]
            /\ pc' = "start"
            /\ calls' = calls + 1
       ELSE /\ mn' = [mn EXCEPT !.pc = "exit"]
            /\ UNCHANGED <<pc, calls>>
    /\ UNCHANGED <<target, passes, rename_files, loopVars, listVars, success_count,
                   failed_deletes, ret, outcome, rn, tree, disk, flood, vss, last, faults,
                   sz, wr>>

\* lines 1498-1505: flood_vss on the returned directory, when asked for
MainVss ==
    /\ mn.pc = "delete"
    /\ pc = "done"
    /\ IF mn.flood_vss # None /\ PathTruthy(ret)
       THEN /\ vss' = VssCall(mn.platform,
                              IF mn.flood_vss = Some(0 - 1) THEN None ELSE mn.flood_vss,
                              TRUE, FALSE,
                              IF mn.flood_vss = Some(0 - 1) /\ mn.platform = "win32"
                              THEN Some(125) ELSE None)
            /\ tree' = <<>>
            /\ disk' = TempDisk
            /\ mn' = [mn EXCEPT !.pc = "vss", !.parent_dir = ret,
                                !.log = Append(@, [fn |-> "flood_vss", path |-> ret])]
       ELSE /\ mn' = [mn EXCEPT !.pc = "vss", !.parent_dir = ret]
            /\ UNCHANGED <<vss, tree, disk>>
    /\ UNCHANGED <<folderVars, rn, flood, last, faults>>

\* lines 1507-1516: flood_journal on the returned directory, when asked for
MainJournal ==
    /\ mn.pc = "vss"
    /\ vss.pc \in {"idle", "done"}
    /\ IF mn.flood_journal # None /\ PathTruthy(mn.parent_dir)
       THEN /\ flood' = JournalCall(mn.platform,
                                    IF mn.flood_journal = Some(0 - 1)
                                    THEN None ELSE mn.flood_journal,
                                    TRUE, FALSE,
                                    IF mn.flood_journal = Some(0 - 1) /\ mn.platform = "win32"
                                    THEN Some(1000) ELSE None)
            /\ tree' = <<>>
            /\ disk' = TempDisk
            /\ mn' = [mn EXCEPT !.pc = "journal",
                                !.log = Append(@, [fn |-> "flood_journal",
                                                   path |-> mn.parent_dir])]
       ELSE /\ mn' = [mn EXCEPT !.pc = "journal"]
            /\ UNCHANGED <<flood, tree, disk>>
    /\ UNCHANGED <<folderVars, rn, vss, last, faults>>

\* the floods are over
MainEnd ==
    /\ mn.pc = "journal"
    /\ flood.pc \in {"idle", "done"}
    /\ mn' = [mn EXCEPT !.pc = "end"]
    /\ UNCHANGED <<folderVars, rn, tree, disk, flood, vss, last, faults>>

MainNext ==
    \/ MainCheck
    \/ MainConfirm
    \/ Inventory
    \/ SizeExists
    \/ SizeRead
    \/ RenameItem
    \/ SanitizeFile
    \/ RemoveDir
    \/ RemoveRoot
    \/ MainVss
    \/ VssNext
    \/ MainJournal
    \/ JournalNext
    \/ MainEnd

MainSpec == MainInit /\ [][MainNext]_vars

\* ------------------------------------------------------------------ claims
Files == {n \in 1..Len(tree) : tree[n].kind = "file"}

Range(f) == {f[i] : i \in DOMAIN f}

Finished == pc = "done" /\ target = "dir"

\* the list entry for directory p (0, the target folder) is in failed_deletes
DirRecorded(p) ==
    IF p = 0 THEN <<>> \in Range(failed_deletes)
    ELSE \E i \in DOMAIN all_dirs :
            all_dirs[i].id = p /\ all_dirs[i].path \in Range(failed_deletes)

\* C1: in a run without filesystem errors every inventoried file, at any depth
\* and with rename on or off, is handed to secure_delete_file and leaves the
\* disk through it and through nothing else.
C1_EveryFileSanitized ==
    (Finished /\ faults = 0) =>
        \A n \in Files :
            /\ outcome[n].handed
            /\ outcome[n].result = "True"
            /\ outcome[n].removedBy = "sanitizer"

\* C2: when the rename phase has ended, every path in the file list and in the
\* directory list leads to the entry it was recorded for (stated for the runs
\* in which no rename failed, where the renamed record is the one kept).
C2_ListsHoldLivePaths ==
    (rename_files /\ faults = 0
        /\ pc \in {"overwrite", "teardown", "root"} /\ fi = 0 /\ di = 0) =>
        /\ \A i \in DOMAIN all_files :
              Lookup(tree, disk, all_files[i].path) = {all_files[i].id}
        /\ \A i \in DOMAIN all_dirs :
              Lookup(tree, disk, all_dirs[i].path) = {all_dirs[i].id}

\* C4: when secure_delete_folder has finished, the directory of every file
\* whose sanitization failed is in the force-deleted list.
C4_FailedFileDirDegraded ==
    Finished =>
        \A n \in Files : outcome[n].result = "False" => DirRecorded(tree[n].parent)

\* positions of operation o in a log
Pos(log, o) == {i \in DOMAIN log : log[i].op = o}

SdfCall == last.fn = "secure_delete_file" /\ tree[last.id].size > 0

\* C6: a call of secure_delete_file on a non-empty file opens the file without
\* truncating it, writes every pass, then syncs once (never between passes),
\* closes and unlinks; an unlink is never issued before the sync, and True is
\* returned only after that unlink.
C6_OverwriteSyncUnlinkOrder ==
    SdfCall =>
        LET log == last.log
            size == tree[last.id].size
        IN /\ Pos(log, "open") \subseteq {1}
           /\ log # <<>> => log[1] = Op("open", size)
           /\ Cardinality(Pos(log, "fsync")) <= 1
           /\ \A i \in Pos(log, "fsync") :
                 /\ Pos(log, "write") \cup Pos(log, "seek") \subseteq 1..(i - 1)
                 /\ Cardinality(Pos(log, "seek")) = passes
                 /\ WrittenBytes(log) = passes * size
                 /\ log[i - 1].op = "flush"
                 /\ log[i + 1].op = "close"
           /\ \A i \in Pos(log, "remove") :
                 /\ i = Len(log)
                 /\ log[i - 1].op = "close"
                 /\ log[i - 2].op = "fsync"
           /\ ~disk[last.id].present => Pos(log, "remove") # {}
           /\ last.result = "True" <=> Pos(log, "remove") # {}
           /\ last.result = "True" => ~disk[last.id].present

C6_Witness ==
    /\ SdfCall
    /\ last.result = "True"
    /\ passes > 1
    /\ tree[last.id].size > ChunkSize

\* C7: an exception inside secure_delete_file never leaves it, the call returns
\* False, and every file listed after a failed one is still handed to
\* secure_delete_file.
C7_FailureSkipsNothing ==
    /\ pc # "raised"
    /\ last.fn = "secure_delete_file" => last.result \in {"True", "False"}
    /\ (target = "dir" /\ pc \in {"teardown", "root", "done"}) =>
          \A i \in DOMAIN all_files, j \in DOMAIN all_files :
              (i < j /\ outcome[all_files[i].id].result = "False")
                  => outcome[all_files[j].id].handed

\* a loop that has not returned still has an entry to take (every action
\* admits the choice of no filesystem error, so its guard is all it needs)
CanStep ==
    \/ pc \in {"start", "root"}
    \/ pc = "size" /\ sz.i < Len(all_files)
    \/ pc = "rename" /\ ri < Len(ItemsToRename)
    \/ pc = "overwrite" /\ fi < Len(all_files)
    \/ pc = "teardown" /\ di < Len(all_dirs)

\* C8: past the inventory, whatever renames, overwrites and removals fail,
\* secure_delete_folder never raises, is never stuck before it returns (its
\* loops are bounded by the lists), and what it returns is the parent directory.
C8_AlwaysReturnsParent ==
    target = "dir" =>
        /\ pc # "raised"
        /\ pc # "done" => CanStep
        /\ pc = "done" <=> ret = "parent"
        /\ ret \in {"unset", "parent"}

C8_Witness ==
    /\ Finished
    /\ faults = MaxFaults
    /\ disk[0].present
    /\ success_count < total_files

\* C9: when secure_delete_folder has finished and some inventoried file did not
\* leave the disk through a successful secure_delete_file, the success count is
\* below the file count or a force-deleted directory is listed.
C9_NoSilentSuccess ==
    (Finished /\ \E n \in Files :
                    ~(outcome[n].result = "True" /\ outcome[n].removedBy = "sanitizer"))
        => (success_count < total_files \/ failed_deletes # <<>>)

C9_Witness ==
    /\ Finished
    /\ \E n \in Files : outcome[n].result = "False" /\ disk[n].present
    /\ failed_deletes = <<>>
    /\ success_count < total_files

\* C10: in the directory list every directory comes after the directories
\* inside it, directories are taken in list order, no directory removal is
\* attempted before the file loop has consumed the whole file list, and the
\* root is taken after every listed directory.
C10_PostOrderTeardown ==
    target = "dir" =>
        /\ \A i \in DOMAIN all_dirs, j \in DOMAIN all_dirs :
              IsUnder(tree, all_dirs[i].id, all_dirs[j].id) => i < j
        /\ \A i \in DOMAIN all_files, j \in DOMAIN all_dirs :
              IsUnder(tree, all_files[i].id, all_dirs[j].id) => (di >= j => fi >= i)
        /\ di > 0 => fi = Len(all_files) /\ Len(all_files) = total_files
        /\ (di > 0 /\ last.fn = "teardown" /\ last.id # 0) => last.id = all_dirs[di].id
        /\ (last.fn = "teardown" /\ last.id = 0) =>
              fi = Len(all_files) /\ di = Len(all_dirs)

C10_Witness ==
    /\ pc = "teardown"
    /\ di > 0
    /\ fi > 0
    /\ \E i \in DOMAIN all_dirs, j \in DOMAIN all_dirs :
          IsUnder(tree, all_dirs[i].id, all_dirs[j].id)

\* C3: when no filesystem operation fails, after flood_journal has returned
\* none of the files it created is on disk under any name and its temporary
\* directory is gone.
C3_FloodLeavesNothing ==
    (flood.pc = "done" /\ faults = 0) => \A n \in DOMAIN disk : ~disk[n].present

AutoSized == vss.platform = "win32" /\ vss.arg = None /\ vss.pc \notin {"idle", "size"}

\* C5: when flood_vss sizes itself and the capacity query returns None for the
\* storage allocation, the target is exactly 10 GiB, which is not the target
\* chosen for an allocation reported unbounded.
C5_AbsentCapacityTarget ==
    (AutoSized /\ vss.drive_letter /\ ~vss.raises /\ vss.max_space = None) =>
        /\ vss.target = 10 * GiB
        /\ vss.target # VssAutoTarget(TRUE, Some(0 - 1), FALSE)

\* C11: every run that passes the two checks gives the root folder the rmdir
\* attempt (with the rmtree fallback) before it returns, whatever the inventory
\* holds; without a filesystem error the root is gone at the return.
C11_RootAlwaysAttempted ==
    Finished =>
        /\ last.fn = "teardown" /\ last.id = 0
        /\ Len(last.log) >= 1 /\ last.log[1] = "rmdir"
        /\ faults = 0 => ~disk[0].present

\* C12: when the target is missing or is no directory, secure_delete_folder
\* returns None and nothing was renamed, written, unlinked or removed: the disk
\* is as it was at the call, no call was made and no list was filled.
C12_FailFast ==
    target # "dir" =>
        /\ pc \in {"start", "done"}
        /\ pc = "done" <=> ret = "None"
        /\ ret \in {"unset", "None"}
        /\ disk = StartDisk(tree, target)
        /\ last = NoCall
        /\ all_files = <<>> /\ all_dirs = <<>> /\ failed_deletes = <<>>
        /\ success_count = 0

C12_Witness ==
    /\ target = "file"
    /\ pc = "done"
    /\ ret = "None"
    /\ disk[0].present

ZeroCall == last.fn = "secure_delete_file" /\ tree[last.id].size = 0

\* C13: a call of secure_delete_file on a zero-length file issues no open, no
\* seek, no write, no flush and no fsync, for every value of passes: the only
\* operation is the removal, and the call returns True with the file gone
\* (False, with nothing done, only when the removal itself raised).
C13_ZeroLengthNoWrite ==
    ZeroCall =>
        /\ \A i \in DOMAIN last.log : last.log[i] = Op("remove", 0)
        /\ Len(last.log) <= 1
        /\ last.result \in {"True", "False"}
        /\ last.result = "True" <=> last.log # <<>>
        /\ last.result = "True" <=> ~disk[last.id].present
        /\ faults = 0 => last.result = "True"

C13_Witness ==
    /\ ZeroCall
    /\ passes = MaxPasses
    /\ last.result = "True"
    /\ last.log = <<Op("remove", 0)>>
    /\ ~disk[last.id].present

\* the names the entry of the call has had: its first path and every target
RnNames == {rn.path} \cup {rn.log[i].to : i \in DOMAIN rn.log}

\* C14: a successful secure_rename(p, k), k >= 1, has made exactly k renames,
\* each one from the path the previous one produced (the first from p) into
\* the same parent; at every step exactly one of the names the entry has had
\* leads to it; afterwards p is gone and the returned name has 48 hex
\* characters, followed by .tmp for a file and by nothing for a directory.
C14_RenameChain ==
    /\ (rn.pc # "idle" /\ disk[rn.id].present) =>
          /\ Lookup(tree, disk, rn.current_path) = {rn.id}
          /\ \A q \in RnNames \ {rn.current_path} : ~Exists(tree, disk, q)
          /\ \A i \in DOMAIN rn.log :
                /\ rn.log[i].from = IF i = 1 THEN rn.path ELSE rn.log[i - 1].to
                /\ Parent(rn.log[i].to) = Parent(rn.path)
    /\ (rn.pc = "done" /\ rn.result = "path" /\ rn.passes >= 1) =>
          LET final == rn.current_path[Len(rn.current_path)]
          IN /\ Len(rn.log) = rn.passes
             /\ rn.current_path = rn.log[rn.passes].to
             /\ ~Exists(tree, disk, rn.path)
             /\ Parent(rn.current_path) = Parent(rn.path)
             /\ final.len = 48
             /\ final.ext = IF tree[rn.id].kind = "file" THEN ".tmp" ELSE ""

C14_Witness ==
    /\ rn.pc = "done"
    /\ rn.result = "path"
    /\ rn.passes = 2
    /\ tree[rn.id].kind = "dir"
    /\ tree[rn.id].parent # 0
    /\ HasEntries(tree, disk, rn.id)

\* C15: when the rename of pass j fails, secure_rename returns None, no later
\* pass is attempted, the entry stays at the name pass j-1 gave it (the first
\* name if j = 1), and no rename ever goes back to an earlier name.
C15_RenameFailureStops ==
    /\ (rn.pc = "done" /\ rn.failed # 0) =>
          /\ rn.result = "None"
          /\ Len(rn.log) = rn.failed - 1
          /\ rn.i = rn.failed - 1
          /\ rn.current_path = IF rn.failed = 1 THEN rn.path ELSE rn.log[rn.failed - 1].to
          /\ disk[rn.id].present => Lookup(tree, disk, rn.current_path) = {rn.id}
          /\ rn.failed > 1 => ~Exists(tree, disk, rn.path)
    /\ rn.pc # "idle" =>
          /\ rn.result = "None" <=> rn.failed # 0
          /\ \A i \in DOMAIN rn.log :
                /\ rn.log[i].to # rn.path
                /\ \A j \in 1..(i - 1) : rn.log[i].to # rn.log[j].to

C15_Witness ==
    /\ rn.pc = "done"
    /\ rn.result = "None"
    /\ rn.failed = 3
    /\ rn.passes = 4
    /\ disk[rn.id].name = rn.log[2].to[Len(rn.log[2].to)]

JournalAutoSized == flood.pc \notin {"idle", "size"} /\ flood.arg = None

\* C16: when flood_journal sizes itself and the capacity query gave a journal
\* size, the file count is min(500000, max(50000, floor(1.5 * size / (400 * 5))));
\* the fixed fallback count is used only when the query gave no size.
C16_JournalCountFormula ==
    (JournalAutoSized /\ flood.platform = "win32" /\ flood.drive_letter
        /\ ~flood.raises /\ flood.max_size.known) =>
        flood.num_files =
            Min(500000, Max(50000, (3 * flood.max_size.v) \div (2 * 400 * 5)))

\* C17: the file count flood_journal chooses by itself lies in 50000..500000,
\* for every journal size, for a zero or absent size, on every platform branch.
C17_JournalCountInRange ==
    JournalAutoSized => flood.num_files >= 50000 /\ flood.num_files <= 500000

C17_Witness ==
    /\ JournalAutoSized
    /\ flood.max_size = Some(700000000)
    /\ flood.num_files = 500000
    /\ flood.pc = "done"

VssKnownPositive ==
    /\ AutoSized /\ vss.drive_letter /\ ~vss.raises
    /\ vss.max_space.known /\ vss.max_space.v > 0

\* C18: when flood_vss sizes itself and the capacity query reports a positive
\* maximum M, the target is floor(0.8 * M): the integer t with
\* 10 t <= 8 M < 10 (t + 1).
C18_TargetIsFourFifths ==
    VssKnownPositive =>
        /\ 10 * vss.target <= 8 * vss.max_space.v
        /\ 8 * vss.max_space.v < 10 * (vss.target + 1)

C18_Witness ==
    /\ VssKnownPositive
    /\ vss.max_space = Some(127)
    /\ vss.target = 101
    /\ vss.pc = "delete"

VssUnbounded ==
    /\ AutoSized /\ vss.drive_letter /\ ~vss.raises
    /\ vss.max_space = Some(0 - 1)

\* C19: when flood_vss sizes itself and the capacity query reports the
\* sentinel -1 of an unbounded allocation, the target is exactly 5 GiB.
C19_UnboundedTarget ==
    VssUnbounded => vss.target = 5 * 1024

C19_Witness ==
    /\ VssUnbounded
    /\ vss.target = 5120
    /\ vss.pc = "rmdir"
    /\ Len(vss.created_files) = 51

VssRan == vss.pc \notin {"idle", "size"} /\ vss.platform = "win32"

\* C20: for every target T, below 100 MiB, zero and negative included, a run of
\* flood_vss without a filesystem error creates exactly max(1, floor(T / 100 MiB))
\* files, each of exactly 100 MiB written in chunks of at most 10 MiB; the exit
\* on bytes_written >= T never leaves fewer files than that.
C20_VssFileCount ==
    VssRan =>
        /\ vss.target < 100 => vss.num_files = 1
        /\ vss.target >= 100 =>
              /\ 100 * vss.num_files <= vss.target
              /\ vss.target < 100 * (vss.num_files + 1)
        /\ (faults = 0 /\ vss.pc \in {"delete", "rmdir", "done"}) =>
              Len(vss.created_files) = vss.num_files
        /\ \A i \in DOMAIN vss.created_files :
              tree[vss.created_files[i].id].size = 100
        /\ last.fn = "write_file" =>
              /\ \A i \in DOMAIN last.log :
                    last.log[i].op = "write" /\ last.log[i].n > 0 /\ last.log[i].n <= 10
              /\ WrittenBytes(last.log) = 100
        /\ vss.bytes_written = 100 * Len(vss.created_files)

C20_Witness ==
    /\ VssRan
    /\ faults = 0
    /\ vss.target = 200
    /\ vss.pc = "rmdir"
    /\ Len(vss.created_files) = 2
    /\ vss.bytes_written = 200

\* the entries of the flood's directory (the directory is entry 0) still on disk
OnDisk == {n \in DOMAIN disk : disk[n].present}

\* C21: after a flood_vss run without a filesystem error no created file and no
\* temporary directory is left; the delete loop calls unlink on every created
\* file exactly once, in list order, and goes on after an unlink that failed.
C21_VssLeavesNothing ==
    VssRan =>
        /\ (vss.pc = "done" /\ faults = 0) => OnDisk = {}
        /\ vss.pc \in {"delete", "rmdir"} =>
              /\ vss.tried = [i \in 1..vss.deleted |-> vss.created_files[i].id]
              /\ \A i \in (vss.deleted + 1)..Len(vss.created_files) :
                    disk[vss.created_files[i].id].present
        /\ vss.pc = "rmdir" =>
              /\ vss.deleted = Len(vss.created_files)
              /\ Cardinality(OnDisk \ {0}) <= faults

C21_Witness ==
    /\ VssRan
    /\ vss.pc = "rmdir"
    /\ Len(vss.created_files) = 2
    /\ disk[vss.created_files[1].id].present
    /\ ~disk[vss.created_files[2].id].present
    /\ Len(vss.tried) = 2

\* C22: in flood_journal an error while creating, renaming or deleting one
\* file never stops the processing of the others: no run is stopped by the
\* creation of a file, and a run that has returned (its directory made) has
\* created every file it was to create.
C22_FloodErrorsContained ==
    flood.pc \notin {"idle", "size"} =>
        /\ flood.stopped # "create"
        /\ (flood.pc = "done" /\ flood.stopped # "mkdir") =>
              Len(flood.created_files) = Followed(flood.num_files)

\* a flood call that an error of a file creation has ended, with the removal
\* of its except branch successful
Interrupted(f) == f.pc = "done" /\ f.stopped = "create" /\ f.cleanup = "ok"

\* C23: when an error interrupts flood_journal or flood_vss part-way and the
\* removals succeed, every file created so far, a partially written one
\* included, and the temporary directory are gone when the function returns;
\* the function returns (the only way a call ends is its return).
C23_InterruptedFloodCleansUp ==
    /\ Interrupted(flood) => OnDisk = {}
    /\ Interrupted(vss) => OnDisk = {}
    /\ flood.pc \in {"idle", "size", "mkdir", "create", "rename", "delete", "rmdir", "done"}
    /\ vss.pc \in {"idle", "size", "mkdir", "create", "delete", "rmdir", "done"}

C23_Witness ==
    /\ Interrupted(flood)
    /\ Len(flood.created_files) >= 1
    /\ Len(tree) = Len(flood.created_files) + 1
    /\ OnDisk = {}

\* C24: on an existing target directory that is empty, secure_delete_folder
\* makes no rename, overwrite, unlink or removal call, leaves the disk as it
\* was and returns the parent directory in its first step; a second call on
\* the same directory does the same.
C24_EmptyTargetIdempotent ==
    (target = "dir" /\ tree = <<>>) =>
        /\ pc \in {"start", "done"}
        /\ pc = "done" <=> ret = "parent"
        /\ last = NoCall
        /\ disk = StartDisk(tree, target)
        /\ all_files = <<>> /\ all_dirs = <<>> /\ total_files = 0
        /\ success_count = 0 /\ failed_deletes = <<>>
        /\ faults = 0

C24_Witness ==
    /\ target = "dir" /\ tree = <<>>
    /\ calls = 2
    /\ pc = "done"
    /\ ret = "parent"
    /\ disk[0].present

\* the calls main has made, by name
MainCalls == [i \in DOMAIN mn.log |-> mn.log[i].fn]

\* C25: in main no flood starts before secure_delete_folder has returned;
\* flood_vss and, after it has returned, flood_journal are called only when
\* their option was given, only on the directory secure_delete_folder
\* returned, and never when it returned None.
C25_FloodsAfterDeletion ==
    mn.pc # "idle" =>
        /\ (vss.pc # "idle" \/ flood.pc # "idle") =>
              /\ pc = "done"
              /\ ret = "parent"
              /\ mn.parent_dir = "parent"
        /\ vss.pc # "idle" =>
              /\ mn.flood_vss # None
              /\ vss.arg = None <=> mn.flood_vss = Some(0 - 1)
        /\ flood.pc # "idle" =>
              /\ mn.flood_journal # None
              /\ vss.pc \in {"idle", "done"}
              /\ flood.arg = None <=> mn.flood_journal = Some(0 - 1)
        /\ MainCalls \in {<<>>, <<"secure_delete_folder">>,
                            <<"secure_delete_folder", "flood_vss">>,
                            <<"secure_delete_folder", "flood_journal">>,
                            <<"secure_delete_folder", "flood_vss", "flood_journal">>}
        /\ \A i \in DOMAIN mn.log :
              mn.log[i].fn # "secure_delete_folder" => mn.log[i].path = "parent"
        /\ pc \notin {"idle", "done"} => vss.pc = "idle" /\ flood.pc = "idle"
        /\ (mn.pc = "end" /\ ret = "None") => MainCalls = <<"secure_delete_folder">>

C25_Witness ==
    /\ mn.pc = "end"
    /\ MainCalls = <<"secure_delete_folder", "flood_vss", "flood_journal">>
    /\ vss.pc = "done" /\ Len(vss.created_files) = 1
    /\ flood.pc = "done" /\ Len(flood.created_files) = 3

\* nothing has been called and the disk is as main found it
Untouched ==
    /\ pc = "idle" /\ vss = Idle /\ flood = Idle
    /\ mn.log = <<>>
    /\ last = NoCall
    /\ disk = StartDisk(tree, target)
    /\ calls = 0

\* C30: main renames, overwrites, unlinks, removes and creates nothing, and
\* calls none of secure_delete_folder, flood_vss and flood_journal, unless the
\* confirmation typed is exactly DELETE; with any other input it exits.
C30_NothingWithoutDelete ==
    mn.pc # "idle" =>
        /\ mn.response # "DELETE" => Untouched /\ mn.pc \in {"check", "confirm", "exit"}
        /\ mn.pc \in {"check", "confirm", "exit"} => Untouched
        /\ ~Untouched => mn.response = "DELETE"

C30_Witness ==
    /\ mn.pc = "exit"
    /\ mn.response = "delete"
    /\ mn.flood_vss # None /\ mn.flood_journal # None
    /\ target = "dir"
    /\ Len(tree) = 2
    /\ Untouched

\* C26: when the rename phase has ended, the path kept for an entry whose
\* secure_rename failed after a successful pass is the name the entry has on
\* disk, and the entry is handed on under it.  Stated for the entries directly
\* in the target folder, whose path no rename of a directory can change.
C26_PartialRenameKeepsLivePath ==
    (target = "dir" /\ rename_files /\ pc \in {"overwrite", "teardown", "root", "done"}) =>
        /\ \A i \in DOMAIN all_files :
              (tree[all_files[i].id].parent = 0 /\ disk[all_files[i].id].present
                  /\ disk[0].present)
                  => Lookup(tree, disk, all_files[i].path) = {all_files[i].id}
        /\ \A i \in DOMAIN all_dirs :
              (tree[all_dirs[i].id].parent = 0 /\ disk[all_dirs[i].id].present
                  /\ disk[0].present)
                  => Lookup(tree, disk, all_dirs[i].path) = {all_dirs[i].id}
        /\ pc = "done" =>
              \A n \in Files : tree[n].parent = 0 => outcome[n].handed

\* the name pass k of secure_rename gives entry n
PassName(n, k) ==
    WithExt(generate_random_name(NameLength, Token(n, k)),
            IF tree[n].kind = "file" THEN ".tmp" ELSE "")

\* C27: a run of secure_delete_folder with rename enabled and no filesystem
\* error leaves every inventoried entry under the name of its third rename
\* pass, whatever passes is, has written passes times its length to every
\* non-empty file and nothing to an empty one, and ends with a success count
\* equal to the number of inventoried files, for every shape of the tree.
C27_CleanRunCounts ==
    (Finished /\ faults = 0 /\ rename_files) =>
        /\ \A n \in 1..Len(tree) : disk[n].name = PassName(n, 3)
        /\ \A n \in Files : outcome[n].writes = passes * tree[n].size
        /\ total_files = Cardinality(Files)
        /\ success_count = total_files

RECURSIVE SumSizes(_)
SumSizes(ns) ==
    IF ns = {} THEN 0
    ELSE LET n == CHOOSE m \in ns : TRUE IN tree[n].size + SumSizes(ns \ {n})

\* C28: when another process deletes inventoried files while
\* secure_delete_folder computes the total size, between the existence check
\* and the size read of a file included, no exception escapes the call, the
\* call still has a step to take until it returns, and once the total is
\* computed it is the sum of the files counted, every file left out being one
\* the other process deleted.
C28_ExternalDeleteTolerated ==
    target = "dir" =>
        /\ pc # "raised"
        /\ pc # "done" => CanStep
        /\ sz.total = SumSizes(sz.counted)
        /\ (pc \notin {"start", "size"} /\ all_files # <<>>) =>
               Files \ sz.counted \subseteq sz.gone

\* the passes of the write loop that are over
PassesOver == IF wr.pc = "chunk" THEN Len(wr.log) - 1 ELSE Len(wr.log)

\* what a pass has written is chunks of 1 to ChunkSize bytes after a seek to 0
WellChunked(l) ==
    /\ l[1] = Op("seek", 0)
    /\ \A j \in 2..Len(l) : l[j].op = "write" /\ l[j].n > 0 /\ l[j].n <= ChunkSize

\* C29: for every length S > 0, every pass of the write loop of
\* secure_delete_file starts with a seek to offset 0 and writes chunks of at
\* most 1 MiB that never sum to more than S; a pass that is over has written
\* exactly S bytes in ceil(S / 1 MiB) chunks; and the loop ends, after as many
\* passes as were asked for.
C29_ChunksCoverLength ==
    /\ [](wr.pc # "idle" =>
            /\ \A p \in DOMAIN wr.log :
                  /\ WellChunked(wr.log[p])
                  /\ WrittenBytes(wr.log[p]) <= wr.file_size
            /\ \A p \in 1..PassesOver :
                  /\ WrittenBytes(wr.log[p]) = wr.file_size
                  /\ Len(wr.log[p]) - 1 = (wr.file_size + ChunkSize - 1) \div ChunkSize
            /\ wr.pc = "done" => Len(wr.log) = wr.passes)
    /\ <>(wr.pc = "done")

\* a length that is not a whole number of chunks, written twice
C29_Witness ==
    /\ wr.pc = "done"
    /\ wr.passes = 2
    /\ wr.file_size = 2 * ChunkSize + 1
    /\ Len(wr.log[2]) = 4
    /\ wr.log[2][4] = Op("write", 1)

====
